---- MODULE Spec2Model ----
(***************************************************************************)
(* Attribute-value association of saleor/attribute/utils.py.               *)
(*                                                                         *)
(* The store holds the Assignment tables (AssignedProductAttribute, ...)   *)
(* and the AssignedValue tables (AssignedProductAttributeValue, ...).      *)
(* associate_attribute_values_to_instance validates value ownership,       *)
(* resolves the link of the attribute for the instance's kind, gets or     *)
(* creates the Assignment, replaces its value set and rewrites sort_order. *)
(*                                                                         *)
(* Spec            calls run one at a time, each as one atomic step.       *)
(* SpecConcurrent  two callers run the store steps of their calls          *)
(*                 (get-or-create, set, re-read, bulk_update) interleaved. *)
(***************************************************************************)
EXTENDS Integers, Sequences, FiniteSets, TLC

VARIABLES
    assignments,        \* rows of the Assignment tables
    valueassignments,   \* rows of the AssignedValue tables
    call,               \* per caller: position in the call, arguments and locals
    lastSet,            \* history: per Assignment, the caller and values of the last values.set
    staleWrite,         \* history: Assignments hit by a bulk_update of a call other than the last setter
    allOk,              \* history: no interleaved call has raised so far
    before              \* history: the store when the call that just ended in Spec began

vars == <<assignments, valueassignments, call, lastSet, staleWrite, allOk, before>>

store == <<assignments, valueassignments>>

-----------------------------------------------------------------------------
(* Bounds *)

\* longest value sequence passed to a call of Spec
MaxLen == 2

\* longest value sequence passed to a call of SpecConcurrent
MaxConcLen == 2

-----------------------------------------------------------------------------
(* The catalog the calls run against: entities, attributes, links.  The    *)
(* schema is owned by other modules; utils.py only reads it.               *)

\* sort_order of a row that was inserted by values.set and not yet sorted
Null == -1

Procs == {1, 2}

\* one instance per class handled by the dispatch, and one of a class that is not
Instances == {"product1", "variant1", "page1", "category1", "collection1", "order1"}

\* instance.__class__.__name__
ClassName(instance) ==
    CASE instance = "product1"    -> "Product"
      [] instance = "variant1"    -> "ProductVariant"
      [] instance = "page1"       -> "Page"
      [] instance = "category1"   -> "Category"
      [] instance = "collection1" -> "Collection"
      [] OTHER                    -> "Order"

Attributes == {"color", "size"}

\* attribute.values.values_list("pk", flat=True)
AttributeValuePks(attribute) ==
    IF attribute = "color" THEN {1, 2} ELSE {3}

AllValuePks == UNION {AttributeValuePks(a) : a \in Attributes}

\* site_settings argument: absent (the default) or the site's settings object
SiteSettings == {"None", "settings"}

\* The link tables: instance.product_type.attributeproduct,
\* instance.product.product_type.attributevariant, instance.page_type.attributepage,
\* site_settings.category_attributes, site_settings.collection_attributes.
AttributeLinks ==
    { [lookup |-> "attributeproduct",      attribute_id |-> "color"],
      [lookup |-> "attributevariant",      attribute_id |-> "size"],
      [lookup |-> "attributepage",         attribute_id |-> "size"],
      [lookup |-> "category_attributes",   attribute_id |-> "size"],
      [lookup |-> "collection_attributes", attribute_id |-> "size"] }

NoAssignment == [model |-> "none", pk |-> 0]

-----------------------------------------------------------------------------
(* Helpers *)

SeqsUpTo(S, n) == UNION {[1..k -> S] : k \in 0..n}

Min(S) == CHOOSE x \in S : \A y \in S : x <= y

\* A primary key for a new row.  Keys are opaque: only equality with the key
\* of a row of the table, or of a row object a caller still holds, is observable.
FreshPk(used) == Min((1..(Cardinality(used) + 1)) \ used)

\* values_ids = {value.pk for value in values}
ValuesIds(values) == {values[i] : i \in DOMAIN values}

-----------------------------------------------------------------------------
(* validate_attribute_owns_values *)

\* variant: accepts the values as soon as one of them belongs to the attribute
validate_some_value_owned(attribute, value_ids) ==
    LET attribute_actual_value_ids == AttributeValuePks(attribute)
        found_associated_ids == attribute_actual_value_ids \cap value_ids
    IN  found_associated_ids # {} \/ value_ids = {}

validate_attribute_owns_values(attribute, value_ids) ==
    LET attribute_actual_value_ids == AttributeValuePks(attribute)
        found_associated_ids == attribute_actual_value_ids \cap value_ids
    IN  found_associated_ids = value_ids

-----------------------------------------------------------------------------
(* _associate_attribute_to_instance *)

\* <related manager>.get(attribute_id=attribute_pk): the matching links
LinkGet(lookup, attribute_pk) ==
    {l \in AttributeLinks : l.lookup = lookup /\ l.attribute_id = attribute_pk}

\* variant: objects.create instead of get_or_create
create_always(asgs, model, instance, attribute_rel) ==
    LET pk == FreshPk({a.pk : a \in {b \in asgs : b.model = model}})
    IN  [assignments |-> asgs \cup {[model |-> model, pk |-> pk,
                                     instance |-> instance,
                                     assignment |-> attribute_rel]},
         assignment |-> [model |-> model, pk |-> pk]]

\* <assignment model>.objects.get_or_create(<instance field>=instance, assignment=attribute_rel)
get_or_create(asgs, model, instance, attribute_rel) ==
    LET found == {a \in asgs : /\ a.model = model
                               /\ a.instance = instance
                               /\ a.assignment = attribute_rel}
    IN  IF found # {}
        THEN LET a == CHOOSE a \in found : TRUE
             IN  [assignments |-> asgs, assignment |-> [model |-> model, pk |-> a.pk]]
        ELSE LET pk == FreshPk({a.pk : a \in {b \in asgs : b.model = model}})
             IN  [assignments |-> asgs \cup {[model |-> model, pk |-> pk,
                                              instance |-> instance,
                                              assignment |-> attribute_rel]},
                  assignment |-> [model |-> model, pk |-> pk]]

\* the link an absent row stands for when .filter(...).first() replaces .get(...)
NoLink == [lookup |-> "none", attribute_id |-> "none"]

\* variant: .filter(attribute_id=attribute_pk).first() instead of .get(...), so a
\* missing link is passed on as None
LinkedAssignmentFirst(asgs, lookup, model, instance, attribute_pk) ==
    LET rels == LinkGet(lookup, attribute_pk)
        got == get_or_create(asgs, model, instance,
                             IF rels = {} THEN NoLink ELSE CHOOSE l \in rels : TRUE)
    IN  [error |-> "", assignments |-> got.assignments, assignment |-> got.assignment]

\* resolve the link, then get or create the Assignment; error when .get finds no link
LinkedAssignment(asgs, lookup, model, instance, attribute_pk) ==
    LET rels == LinkGet(lookup, attribute_pk)
    IN  IF rels = {}
        THEN [error |-> "LinkNotFoundError", assignments |-> asgs,
              assignment |-> NoAssignment]
        ELSE LET got == get_or_create(asgs, model, instance, CHOOSE l \in rels : TRUE)
             IN  [error |-> "", assignments |-> got.assignments,
                  assignment |-> got.assignment]

_get_associate_category_or_collection_attribute(asgs, instance, attribute_pk, site_settings) ==
    LET model_name == ClassName(instance)
        assignment_lookup == IF model_name = "Category"
                             THEN "category_attributes" ELSE "collection_attributes"
        assignment_model == IF model_name = "Category"
                            THEN "AssignedCategoryAttribute"
                            ELSE "AssignedCollectionAttribute"
    IN  IF site_settings = "None"
        THEN \* getattr(None, assignment_lookup)
             [error |-> "AttributeError", assignments |-> asgs,
              assignment |-> NoAssignment]
        ELSE LinkedAssignment(asgs, assignment_lookup, assignment_model,
                              instance, attribute_pk)

\* variant: the last elif taken as the else branch, so that any other class reaches
\* instance_to_assignment_mapping[model_name] and fails there with KeyError
_associate_without_else(asgs, instance, attribute_pk, site_settings) ==
    LET cls == ClassName(instance)
    IN  CASE cls = "Product" ->
               LinkedAssignment(asgs, "attributeproduct", "AssignedProductAttribute",
                                instance, attribute_pk)
          [] cls = "ProductVariant" ->
               LinkedAssignment(asgs, "attributevariant", "AssignedVariantAttribute",
                                instance, attribute_pk)
          [] cls = "Page" ->
               LinkedAssignment(asgs, "attributepage", "AssignedPageAttribute",
                                instance, attribute_pk)
          [] cls \in {"Category", "Collection"} ->
               _get_associate_category_or_collection_attribute(
                   asgs, instance, attribute_pk, site_settings)
          [] OTHER ->
               [error |-> "KeyError", assignments |-> asgs, assignment |-> NoAssignment]

_associate_attribute_to_instance(asgs, instance, attribute_pk, site_settings) ==
    LET cls == ClassName(instance)
    IN  CASE cls = "Product" ->
               LinkedAssignment(asgs, "attributeproduct", "AssignedProductAttribute",
                                instance, attribute_pk)
          [] cls = "ProductVariant" ->
               LinkedAssignment(asgs, "attributevariant", "AssignedVariantAttribute",
                                instance, attribute_pk)
          [] cls = "Page" ->
               LinkedAssignment(asgs, "attributepage", "AssignedPageAttribute",
                                instance, attribute_pk)
          [] cls \in {"Category", "Collection"} ->
               _get_associate_category_or_collection_attribute(
                   asgs, instance, attribute_pk, site_settings)
          [] OTHER ->
               [error |-> "UnsupportedEntityError", assignments |-> asgs,
                assignment |-> NoAssignment]

-----------------------------------------------------------------------------
(* assignment.values.set(values) *)

\* the AssignedValue model behind the values relation of an Assignment model
ThroughModel(assignment_model) ==
    CASE assignment_model = "AssignedProductAttribute"  -> "AssignedProductAttributeValue"
      [] assignment_model = "AssignedVariantAttribute"  -> "AssignedVariantAttributeValue"
      [] assignment_model = "AssignedPageAttribute"     -> "AssignedPageAttributeValue"
      [] assignment_model = "AssignedCategoryAttribute" -> "AssignedCategoryAttributeValue"
      [] OTHER                                          -> "AssignedCollectionAttributeValue"

\* the rows of an AssignedValue table that belong to an Assignment
RowsOf(rows, value_model, assignment_pk) ==
    {r \in rows : r.model = value_model /\ r.assignment = assignment_pk}

\* values.add: one through row per new value, sort_order unset
RECURSIVE AddRows(_, _, _, _)
AddRows(rows, assignment, new_ids, held) ==
    IF new_ids = {} THEN rows
    ELSE LET through == ThroughModel(assignment.model)
             v  == Min(new_ids)
             pk == FreshPk({r.pk : r \in {q \in rows : q.model = through}} \cup held)
         IN  AddRows(rows \cup {[model |-> through, pk |-> pk,
                                 assignment |-> assignment.pk, value |-> v,
                                 sort_order |-> Null]},
                     assignment, new_ids \ {v}, held)

\* variant: values.add(*values) instead of values.set(values): nothing is removed
ValuesAddOnly(rows, assignment, values, held) ==
    LET current == RowsOf(rows, ThroughModel(assignment.model), assignment.pk)
        old_ids == {r.value : r \in current}
    IN  AddRows(rows, assignment, ValuesIds(values) \ old_ids, held)

\* variant: a row is added for every value passed, also for the values that have one
ValuesAddAll(rows, assignment, values, held) ==
    LET current == RowsOf(rows, ThroughModel(assignment.model), assignment.pk)
        new_ids == ValuesIds(values)
        removed == {r \in current : r.value \notin new_ids}
    IN  AddRows(rows \ removed, assignment, new_ids, held)

\* rows of values not passed are removed, rows of values already there are kept
\* as they are, rows of the other values are added;  held: the keys of the row
\* objects of this table that callers still hold
ValuesSet(rows, assignment, values, held) ==
    LET current == RowsOf(rows, ThroughModel(assignment.model), assignment.pk)
        old_ids == {r.value : r \in current}
        new_ids == ValuesIds(values)
        removed == {r \in current : r.value \notin new_ids}
    IN  AddRows(rows \ removed, assignment, new_ids \ old_ids, held)

-----------------------------------------------------------------------------
(* sort_assigned_attribute_values *)

\* instance_to_value_assignment_mapping[instance.__class__.__name__]
instance_to_value_assignment_mapping(class_name) ==
    CASE class_name = "Product"        -> "AssignedProductAttributeValue"
      [] class_name = "ProductVariant" -> "AssignedVariantAttributeValue"
      [] class_name = "Page"           -> "AssignedPageAttributeValue"
      [] class_name = "Category"       -> "AssignedCategoryAttributeValue"
      [] class_name = "Collection"     -> "AssignedCollectionAttributeValue"

\* list(getattr(assignment, assignment_lookup).select_related("value"))
ReadValuesAssignment(rows, instance, assignment) ==
    RowsOf(rows, instance_to_value_assignment_mapping(ClassName(instance)), assignment.pk)

\* values_pks.index(pk), 0-based; only used when pk is in values_pks
Index(values_pks, pk) ==
    (CHOOSE i \in 1..Len(values_pks) :
        /\ values_pks[i] = pk
        /\ \A j \in 1..(i - 1) : values_pks[j] # pk) - 1

\* variant: raises when the number of rows differs from the number of values passed
SortRaisesOnLength(values_assignment, values_pks) ==
    Cardinality(values_assignment) # Len(values_pks)

\* list.index raises ValueError for a row whose value is not in values
SortRaises(values_assignment, values_pks) ==
    \E r \in values_assignment : r.value \notin ValuesIds(values_pks)

\* variant: sort(key=lambda e: e.value.pk), the order of the value keys
RECURSIVE SortByValuePk(_, _)
SortByValuePk(values_assignment, values_pks) ==
    IF values_assignment = {} THEN <<>>
    ELSE LET first == CHOOSE r \in values_assignment :
                        \A q \in values_assignment :
                            \/ r.value < q.value
                            \/ r.value = q.value /\ r.pk <= q.pk
         IN  <<first>> \o SortByValuePk(values_assignment \ {first}, values_pks)

\* values_assignment.sort(key=lambda e: values_pks.index(e.value.pk)), as a sequence
RECURSIVE SortByIndex(_, _)
SortByIndex(values_assignment, values_pks) ==
    IF values_assignment = {} THEN <<>>
    ELSE LET first == CHOOSE r \in values_assignment :
                        \A q \in values_assignment :
                            \/ Index(values_pks, r.value) < Index(values_pks, q.value)
                            \/ /\ Index(values_pks, r.value) = Index(values_pks, q.value)
                               /\ r.pk <= q.pk
         IN  <<first>> \o SortByIndex(values_assignment \ {first}, values_pks)

\* variant: enumerate(values_assignment, 1)
EnumerateFromOne(sorted) ==
    {[sorted[i] EXCEPT !.sort_order = i] : i \in DOMAIN sorted}

\* for index, value_assignment in enumerate(values_assignment): sort_order = index
Enumerate(sorted) ==
    {[sorted[i] EXCEPT !.sort_order = i - 1] : i \in DOMAIN sorted}

\* variant: value_assignment.save() for each object, which inserts the row again
\* when the table has no row with its key any more
save_each(rows, objs) ==
    {IF \E o \in objs : o.model = r.model /\ o.pk = r.pk
     THEN [r EXCEPT !.sort_order =
              (CHOOSE o \in objs : o.model = r.model /\ o.pk = r.pk).sort_order]
     ELSE r : r \in rows}
    \cup {o \in objs : ~\E r \in rows : r.model = o.model /\ r.pk = o.pk}

\* assignment_model.objects.bulk_update(values_assignment, ["sort_order"]):
\* the rows of the table with the keys of the objects take their sort_order
bulk_update(rows, objs) ==
    {IF \E o \in objs : o.model = r.model /\ o.pk = r.pk
     THEN [r EXCEPT !.sort_order =
              (CHOOSE o \in objs : o.model = r.model /\ o.pk = r.pk).sort_order]
     ELSE r : r \in rows}

-----------------------------------------------------------------------------
(* associate_attribute_values_to_instance, run without interleaving *)

associate_attribute_values_to_instance(asgs, rows, instance, attribute, values, site_settings) ==
    IF ~validate_attribute_owns_values(attribute, ValuesIds(values))
    THEN [error |-> "ValueOwnershipError", assignments |-> asgs, rows |-> rows,
          assignment |-> NoAssignment]
    ELSE LET a == _associate_attribute_to_instance(asgs, instance, attribute, site_settings)
         IN  IF a.error # ""
             THEN [error |-> a.error, assignments |-> asgs, rows |-> rows,
                   assignment |-> NoAssignment]
             ELSE LET rows1 == ValuesSet(rows, a.assignment, values, {})
                      values_assignment == ReadValuesAssignment(rows1, instance, a.assignment)
                  IN  IF SortRaises(values_assignment, values)
                      THEN [error |-> "ValueNotInAssignmentError",
                            assignments |-> a.assignments, rows |-> rows1,
                            assignment |-> a.assignment]
                      ELSE [error |-> "", assignments |-> a.assignments,
                            rows |-> bulk_update(rows1,
                                        Enumerate(SortByIndex(values_assignment, values))),
                            assignment |-> a.assignment]

-----------------------------------------------------------------------------
(* State machine *)

Idle == [pc |-> "idle", instance |-> "none", attribute |-> "none", values |-> <<>>,
         site_settings |-> "None", assignment |-> NoAssignment,
         values_assignment |-> {}, error |-> ""]

Init ==
    /\ assignments = {}
    /\ valueassignments = {}
    /\ call = [p \in Procs |-> Idle]
    /\ lastSet = <<>>
    /\ staleWrite = {}
    /\ allOk = TRUE
    /\ before = <<{}, {}>>

\* one whole call of associate_attribute_values_to_instance
Associate(p) ==
    /\ call[p].pc = "idle"
    /\ \E instance \in Instances, attribute \in Attributes,
          values \in SeqsUpTo(AllValuePks, MaxLen), site_settings \in SiteSettings :
          LET res == associate_attribute_values_to_instance(
                         assignments, valueassignments, instance, attribute,
                         values, site_settings)
          IN  /\ assignments' = res.assignments
              /\ valueassignments' = res.rows
              /\ call' = [call EXCEPT ![p] =
                            [pc |-> IF res.error = "" THEN "returned" ELSE "raised",
                             instance |-> instance, attribute |-> attribute,
                             values |-> values, site_settings |-> site_settings,
                             assignment |-> res.assignment,
                             values_assignment |-> {}, error |-> res.error]]
    /\ before' = store
    /\ UNCHANGED <<lastSet, staleWrite, allOk>>

\* the call has returned or raised; its locals are gone
Return(p) ==
    /\ call[p].pc \in {"returned", "raised"}
    /\ call' = [call EXCEPT ![p] = Idle]
    /\ before' = <<{}, {}>>
    /\ UNCHANGED <<assignments, valueassignments, lastSet, staleWrite, allOk>>

Next == Associate(1) \/ Return(1)

Spec == Init /\ [][Next]_vars

-----------------------------------------------------------------------------
(* Interleaved calls: each store access of a call is one step.  The callers *)
(* work on the same (instance, attribute) pair with values the attribute    *)
(* owns.                                                                    *)

ConcInstance == "product1"

ConcAttribute == "color"

\* the keys of the AssignedValue row objects callers hold in values_assignment
HeldPks(model) ==
    UNION {{r.pk : r \in {q \in call[p].values_assignment : q.model = model}} : p \in Procs}

\* lines 46-52: values_ids, validate_attribute_owns_values, _associate_attribute_to_instance
Begin(p) ==
    /\ call[p].pc = "idle"
    /\ \E values \in SeqsUpTo(AttributeValuePks(ConcAttribute), MaxConcLen) :
          IF ~validate_attribute_owns_values(ConcAttribute, ValuesIds(values))
          THEN /\ call' = [call EXCEPT ![p] =
                             [Idle EXCEPT !.pc = "raised", !.instance = ConcInstance,
                                          !.attribute = ConcAttribute, !.values = values,
                                          !.error = "ValueOwnershipError"]]
               /\ allOk' = FALSE
               /\ UNCHANGED assignments
          ELSE LET a == _associate_attribute_to_instance(
                            assignments, ConcInstance, ConcAttribute, "None")
               IN  /\ assignments' = a.assignments
                   /\ call' = [call EXCEPT ![p] =
                                 [Idle EXCEPT !.pc = IF a.error = "" THEN "associated"
                                                     ELSE "raised",
                                              !.instance = ConcInstance,
                                              !.attribute = ConcAttribute,
                                              !.values = values,
                                              !.assignment = a.assignment,
                                              !.error = a.error]]
                   /\ allOk' = (allOk /\ a.error = "")
    /\ UNCHANGED <<valueassignments, lastSet, staleWrite, before>>

\* line 53: assignment.values.set(values)
SetValues(p) ==
    /\ call[p].pc = "associated"
    /\ valueassignments' = ValuesSet(valueassignments, call[p].assignment,
                                     call[p].values,
                                     HeldPks(ThroughModel(call[p].assignment.model)))
    /\ call' = [call EXCEPT ![p].pc = "set"]
    /\ lastSet' = (call[p].assignment :> [by |-> p, values |-> call[p].values]) @@ lastSet
    /\ staleWrite' = staleWrite \ {call[p].assignment}
    /\ UNCHANGED <<assignments, allOk, before>>

\* lines 146-153: re-read the rows, sort them by index in values, number them
ReadAndSort(p) ==
    /\ call[p].pc = "set"
    /\ LET values_assignment == ReadValuesAssignment(
                                    valueassignments, call[p].instance, call[p].assignment)
       IN  IF SortRaises(values_assignment, call[p].values)
           THEN /\ call' = [call EXCEPT ![p].pc = "raised",
                                        ![p].error = "ValueNotInAssignmentError"]
                /\ allOk' = FALSE
           ELSE /\ call' = [call EXCEPT
                              ![p].pc = "sorted",
                              ![p].values_assignment =
                                  Enumerate(SortByIndex(values_assignment, call[p].values))]
                /\ UNCHANGED allOk
    /\ UNCHANGED <<assignments, valueassignments, lastSet, staleWrite, before>>

\* lines 155-56: bulk_update of the numbered row objects, return assignment
BulkUpdate(p) ==
    /\ call[p].pc = "sorted"
    /\ valueassignments' = bulk_update(valueassignments, call[p].values_assignment)
    /\ call' = [call EXCEPT ![p].pc = "returned", ![p].values_assignment = {}]
    /\ staleWrite' = IF lastSet[call[p].assignment].by = p
                     THEN staleWrite
                     ELSE staleWrite \cup {call[p].assignment}
    /\ UNCHANGED <<assignments, lastSet, allOk, before>>

NextConcurrent ==
    \E p \in Procs :
        Begin(p) \/ SetValues(p) \/ ReadAndSort(p) \/ BulkUpdate(p) \/ Return(p)

SpecConcurrent == Init /\ [][NextConcurrent]_vars

-----------------------------------------------------------------------------
(* What the claims speak about *)

SupportedClasses == {"Product", "ProductVariant", "Page", "Category", "Collection"}

\* the link source of an instance's kind
LinkSource(instance) ==
    CASE ClassName(instance) = "Product"        -> "attributeproduct"
      [] ClassName(instance) = "ProductVariant" -> "attributevariant"
      [] ClassName(instance) = "Page"           -> "attributepage"
      [] ClassName(instance) = "Category"       -> "category_attributes"
      [] ClassName(instance) = "Collection"     -> "collection_attributes"
      [] OTHER                                  -> "none"

HasLink(instance, attribute) ==
    \E l \in AttributeLinks : l.lookup = LinkSource(instance) /\ l.attribute_id = attribute

\* Category and Collection take their links from the settings passed with the call
SettingsPassed(c) ==
    ClassName(c.instance) \in {"Category", "Collection"} => c.site_settings # "None"

AllOwned(c) == \A i \in DOMAIN c.values : c.values[i] \in AttributeValuePks(c.attribute)

Distinct(values) == \A i, j \in DOMAIN values : values[i] = values[j] => i = j

\* the Assignment rows of an (instance, attribute) pair
AssignmentsOfPair(asgs, instance, attribute) ==
    {a \in asgs : a.instance = instance /\ a.assignment.attribute_id = attribute}

\* the AssignedValue rows of an Assignment row
ValueRows(rows, a) ==
    {r \in rows : r.model = ThroughModel(a.model) /\ r.assignment = a.pk}

ValueSet(rows, a) == {r.value : r \in ValueRows(rows, a)}

\* 0-based position of the first occurrence of v in values
Position(values, v) == Min({i \in DOMAIN values : values[i] = v}) - 1

\* sort_order is 0..n-1 over the n rows and follows the order of values
DenseInOrderOf(rows, a, values) ==
    LET mine == ValueRows(rows, a)
    IN  /\ {r.sort_order : r \in mine} = 0..(Cardinality(mine) - 1)
        /\ \A r \in mine : r.value \in ValuesIds(values)
        /\ \A r, q \in mine :
              r.sort_order < q.sort_order
                  <=> Position(values, r.value) < Position(values, q.value)

\* the call of Spec that has just ended
Ended == call[1].pc \in {"returned", "raised"}

\* no interleaved call is in progress
Quiescent == \A p \in Procs : call[p].pc \in {"idle", "returned"}

-----------------------------------------------------------------------------
(* Claims *)

\* C1: for a supported instance, an attribute linked to the instance's kind and
\* values all owned by the attribute, a call that runs alone succeeds and the value
\* set of the (instance, attribute) Assignment is then exactly the set of the
\* values passed, whatever was associated before.
C1_ValueSetIsExactlyValues ==
    LET c == call[1]
    IN  (/\ Ended
         /\ ClassName(c.instance) \in SupportedClasses
         /\ HasLink(c.instance, c.attribute)
         /\ SettingsPassed(c)
         /\ AllOwned(c))
        => /\ c.pc = "returned"
           /\ c.error = ""
           /\ AssignmentsOfPair(assignments, c.instance, c.attribute) # {}
           /\ \A a \in AssignmentsOfPair(assignments, c.instance, c.attribute) :
                 /\ c.assignment = [model |-> a.model, pk |-> a.pk]
                 /\ ValueSet(valueassignments, a) = ValuesIds(c.values)

\* a call returned after replacing value 1 of product1's color by value 2
C1_Witness ==
    /\ call[1].pc = "returned"
    /\ call[1].instance = "product1"
    /\ call[1].values = <<2>>
    /\ \E a \in AssignmentsOfPair(before[1], "product1", "color") :
          ValueSet(before[2], a) = {1}

\* C2: when a value passed is not owned by the attribute, the call fails with
\* ValueOwnershipError and the store (Assignment rows, value sets, sort_order) is
\* as before the call.
C2_UnownedValueFailsBeforeMutation ==
    LET c == call[1]
    IN  (Ended /\ ~AllOwned(c))
        => /\ c.pc = "raised"
           /\ c.error = "ValueOwnershipError"
           /\ store = before

\* a call with an unowned value failed on a pair that had values associated
C2_Witness ==
    /\ call[1].error = "ValueOwnershipError"
    /\ \E a \in AssignmentsOfPair(assignments, call[1].instance, call[1].attribute) :
          ValueSet(valueassignments, a) # {}

\* C3: after a successful call that runs alone with distinct values, the sort_order
\* values of the Assignment's rows are exactly 0..len(values)-1 and each row's
\* sort_order is the position of its value in values.
C3_SortOrderIsPosition ==
    LET c == call[1]
    IN  (c.pc = "returned" /\ Distinct(c.values))
        => \A a \in AssignmentsOfPair(assignments, c.instance, c.attribute) :
              /\ {r.sort_order : r \in ValueRows(valueassignments, a)}
                     = 0..(Len(c.values) - 1)
              /\ \A r \in ValueRows(valueassignments, a) :
                     c.values[r.sort_order + 1] = r.value

\* values <<2, 1>> were passed for rows that an earlier call had ordered 1, 2
C3_Witness ==
    /\ call[1].pc = "returned"
    /\ call[1].values = <<2, 1>>
    /\ \E a \in AssignmentsOfPair(before[1], call[1].instance, call[1].attribute) :
          \E r, q \in ValueRows(before[2], a) :
              r.value = 1 /\ r.sort_order = 0 /\ q.value = 2 /\ q.sort_order = 1

\* C4: calling again with the same arguments right after a call leaves the store as
\* the first call left it, ends the same way and returns the same Assignment.
C4_SecondCallChangesNothing ==
    LET c == call[1]
        again == associate_attribute_values_to_instance(
                     assignments, valueassignments, c.instance, c.attribute,
                     c.values, c.site_settings)
    IN  Ended => /\ again.assignments = assignments
                 /\ again.rows = valueassignments
                 /\ again.error = c.error
                 /\ again.assignment = c.assignment

\* a call returned that changed the values of an existing Assignment
C4_Witness ==
    /\ call[1].pc = "returned"
    /\ Len(call[1].values) = 2
    /\ before[1] = assignments
    /\ before[2] # valueassignments

\* C5: there is at most one Assignment row per (instance, link) pair; a successful
\* call returns the row of its pair, and creates none when the pair had one.
C5_OneAssignmentPerPair ==
    LET c == call[1]
    IN  /\ \A a, b \in assignments :
              (a.instance = b.instance /\ a.assignment = b.assignment) => a = b
        /\ c.pc = "returned"
              => /\ \E a \in AssignmentsOfPair(assignments, c.instance, c.attribute) :
                       c.assignment = [model |-> a.model, pk |-> a.pk]
                 /\ AssignmentsOfPair(before[1], c.instance, c.attribute) # {}
                       => assignments = before[1]

\* a successful call on a pair that had its Assignment already
C5_Witness ==
    /\ call[1].pc = "returned"
    /\ AssignmentsOfPair(before[1], call[1].instance, call[1].attribute) # {}
    /\ Cardinality(assignments) >= 2

\* C6 as stated: with no link for the instance's kind the call fails with
\* LinkNotFoundError and the store is as before.
C6_Original ==
    LET c == call[1]
    IN  (/\ Ended
         /\ ClassName(c.instance) \in SupportedClasses
         /\ SettingsPassed(c)
         /\ ~HasLink(c.instance, c.attribute))
        => /\ c.error = "LinkNotFoundError"
           /\ store = before

\* C6 amended: with no link for the instance's kind the call fails before any
\* mutation; the error is LinkNotFoundError when all the values passed are owned by
\* the attribute, and ValueOwnershipError when one is not.
C6_NoLinkFailsBeforeMutation ==
    LET c == call[1]
    IN  (/\ Ended
         /\ ClassName(c.instance) \in SupportedClasses
         /\ SettingsPassed(c)
         /\ ~HasLink(c.instance, c.attribute))
        => /\ c.pc = "raised"
           /\ c.error = IF AllOwned(c) THEN "LinkNotFoundError" ELSE "ValueOwnershipError"
           /\ store = before

\* a call failed for want of a link while the store held Assignments with values
C6_Witness ==
    /\ call[1].error = "LinkNotFoundError"
    /\ assignments # {}
    /\ valueassignments # {}

\* C7 as stated: for an instance of an unsupported kind the call raises
\* UnsupportedEntityError, whatever attribute and values are passed, and the store
\* is as before.
C7_Original ==
    LET c == call[1]
    IN  (Ended /\ ClassName(c.instance) \notin SupportedClasses)
        => /\ c.error = "UnsupportedEntityError"
           /\ store = before

\* C7 amended: for an instance of an unsupported kind the call fails and the store
\* is as before; the error is UnsupportedEntityError when all the values passed are
\* owned by the attribute, and ValueOwnershipError when one is not.
C7_UnsupportedFailsBeforeMutation ==
    LET c == call[1]
    IN  (Ended /\ ClassName(c.instance) \notin SupportedClasses)
        => /\ c.pc = "raised"
           /\ c.error = IF AllOwned(c) THEN "UnsupportedEntityError"
                        ELSE "ValueOwnershipError"
           /\ store = before

\* a call with an unsupported instance failed while the store held Assignments
C7_Witness ==
    /\ call[1].error = "UnsupportedEntityError"
    /\ call[1].instance = "order1"
    /\ call[1].values # <<>>
    /\ assignments # {}

\* C8: when interleaved calls on one Assignment have all returned successfully, the
\* value set of the Assignment is the set of the values of the call whose
\* values.set ran last.
C8_LastSetWins ==
    (Quiescent /\ allOk)
        => \A a \in assignments :
              LET k == [model |-> a.model, pk |-> a.pk]
              IN  /\ k \in DOMAIN lastSet
                  /\ ValueSet(valueassignments, a) = ValuesIds(lastSet[k].values)

\* both callers returned, with different value sets, and one of them wrote its
\* sort_order after the other's values.set
C8_Witness ==
    /\ \A p \in Procs : call[p].pc = "returned"
    /\ allOk
    /\ ValuesIds(call[1].values) # ValuesIds(call[2].values)
    /\ call[1].values # <<>>
    /\ call[2].values # <<>>
    /\ staleWrite # {}

C10_Original ==
    [][\A p \in Procs :
          (call[p].pc = "set" /\ call'[p].pc = "raised")
              => /\ store' = store
                 /\ \A a \in assignments :
                       call[p].assignment = [model |-> a.model, pk |-> a.pk]
                           => ValueSet(valueassignments', a) = ValuesIds(call[p].values)
      ]_vars

\* C10 amended: when the sort step of a call fails after its values.set, nothing is
\* written or undone, and the Assignment's value set is the one left by the
\* values.set of another call that ran after the failing call's own: it holds a
\* value that was not passed to the failing call.  A call whose values.set is the
\* last one on the Assignment never fails in its sort step.
C10_SortFailureLeavesLaterSet ==
    [][\A p \in Procs :
          (call[p].pc = "set" /\ call'[p].pc = "raised")
              => /\ call'[p].error = "ValueNotInAssignmentError"
                 /\ store' = store
                 /\ lastSet[call[p].assignment].by # p
                 /\ \A a \in assignments :
                       call[p].assignment = [model |-> a.model, pk |-> a.pk]
                           => /\ ValueSet(valueassignments', a)
                                    = ValuesIds(lastSet[call[p].assignment].values)
                              /\ ~(ValueSet(valueassignments', a)
                                       \subseteq ValuesIds(call[p].values))
      ]_vars

\* a call failed in its sort step
C10_Witness ==
    \E p \in Procs :
        /\ call[p].pc = "raised"
        /\ call[p].error = "ValueNotInAssignmentError"

====
